---------------------------- MODULE Spec2Model ----------------------------
(***************************************************************************)
(* A model of the tutorial scripts of ai-agents-kaggle-x-google:            *)
(*                                                                         *)
(*   - the StoryWritingSystem workflow of Day-1/agent_architectures.py     *)
(*     (a SequentialAgent of InitialWriter and a LoopAgent of CriticAgent  *)
(*     and RefinerAgent, max_iterations = 2),                              *)
(*   - the ResearchSystem workflow of the same script (three researchers   *)
(*     in a ParallelAgent, then AggregatorAgent),                          *)
(*   - the mock lookup tools of Day-2/agent_tools.py,                      *)
(*   - the HttpRetryOptions each script hands to its Gemini model.         *)
(*                                                                         *)
(* Text is a sequence of one-character strings, so that str.lower() and    *)
(* exact, case-sensitive comparison are computed and not assumed.          *)
(* A language-model call is a black box: what it writes is drawn from a    *)
(* small set, and it follows the branch its instruction text prescribes.   *)
(***************************************************************************)
EXTENDS Integers, Sequences, FiniteSets, TLC

VARIABLES
    state,          \* the session state: a dictionary from key to value
    root_pos,       \* index in RootSubAgents of the sub-agent to run next
    loop_pos,       \* index in LoopSubAgents of the sub-agent to run next
    times_looped,   \* completed iterations of StoryRefinementLoop
    terminal,       \* "running" | "approved" | "exhausted" | "failed"
    calls,          \* log of the agent invocations, in order
    tool_request,   \* the tool call under test: [tool, args]
    tool_result,    \* what the tool returned (NoResult before the call)
    retry_options,  \* the HttpRetryOptions of the script under test
    responses,      \* HTTP status of every attempt of one model call
    outcome,        \* "pending" | "success" | "failed"
    research_state, \* the session state of the ResearchSystem run
    research_pc,    \* each researcher: "idle" | "running" | "done"
    research_pos,   \* index in ResearchRootSubAgents of the sub-agent to run next
    research_end,   \* "running" | "done" | "failed"
    research_log    \* log of the events of the ResearchSystem run, in order

storyVars == <<state, root_pos, loop_pos, times_looped, terminal, calls>>
toolVars  == <<tool_request, tool_result>>
retryVars == <<retry_options, responses, outcome>>
researchVars ==
    <<research_state, research_pc, research_pos, research_end, research_log>>
vars      == <<state, root_pos, loop_pos, times_looped, terminal, calls,
               tool_request, tool_result, retry_options, responses, outcome,
               research_state, research_pc, research_pos, research_end, research_log>>

(***************************************************************************)
(* Bounds of the model.                                                    *)
(***************************************************************************)
\* How many different texts a language-model call may produce.
MaxText == 2
\* How many leading characters of a tool argument may be upper-cased.
MaxUpper == 3

(***************************************************************************)
(* Text.                                                                   *)
(***************************************************************************)
LowerAlpha == <<"a","b","c","d","e","f","g","h","i","j","k","l","m",
                "n","o","p","q","r","s","t","u","v","w","x","y","z">>
UpperAlpha == <<"A","B","C","D","E","F","G","H","I","J","K","L","M",
                "N","O","P","Q","R","S","T","U","V","W","X","Y","Z">>

\* str.lower() on one character: a cased letter maps to its lower case,
\* anything else (a digit, a space, punctuation) is left alone.
LowerChar(c) ==
    IF \E i \in 1..Len(UpperAlpha) : UpperAlpha[i] = c
    THEN LowerAlpha[CHOOSE i \in 1..Len(UpperAlpha) : UpperAlpha[i] = c]
    ELSE c

UpperChar(c) ==
    IF \E i \in 1..Len(LowerAlpha) : LowerAlpha[i] = c
    THEN UpperAlpha[CHOOSE i \in 1..Len(LowerAlpha) : LowerAlpha[i] = c]
    ELSE c

\* str.lower()
Lower(s) == [i \in 1..Len(s) |-> LowerChar(s[i])]

Min(a, b) == IF a < b THEN a ELSE b

\* The spellings of s that differ from it in the case of some of its first
\* MaxUpper characters.
CaseVariants(s) ==
    { [i \in 1..Len(s) |-> IF i \in U THEN UpperChar(s[i]) ELSE s[i]] :
        U \in SUBSET (1..Min(MaxUpper, Len(s))) }

(***************************************************************************)
(* Dictionaries.                                                           *)
(***************************************************************************)
EmptyDict == <<>>
\* The absent value: Python's None.  A present value v is <<v>>.
None == <<>>

\* d[key] = value
Put(d, key, value) ==
    [k \in DOMAIN d \cup {key} |-> IF k = key THEN value ELSE d[k]]

\* d.get(key)
DictGet(d, key) == IF key \in DOMAIN d THEN <<d[key]>> ELSE None

\* d.get(key, default), for a dictionary of dictionaries
DictGetOr(d, key, default) == IF key \in DOMAIN d THEN d[key] ELSE default

(***************************************************************************)
(* The story-refinement workflow (Day-1/agent_architectures.py).           *)
(***************************************************************************)
max_iterations == 2

\* The phrase the critic is told to answer when the story is finished.
APPROVED == <<"A","P","P","R","O","V","E","D">>

\* What the critic may answer: the phrase, near-misses of it, and feedback.
Critiques ==
    { APPROVED,
      <<"a","p","p","r","o","v","e","d">>,
      <<"A","p","p","r","o","v","e","d">>,
      <<"a","p","p","r","o","v","e","d",".">>,
      <<"A","P","P","R","O","V","E","D"," ","p","l","e","a","s","e">>,
      <<"n","e","e","d","s"," ","w","o","r","k">> }

\* A text an agent wrote: which kind of answer, in which loop iteration
\* (0: before the loop), and which of the MaxText contents.
NoStory == [kind |-> "none", iteration |-> 0, text |-> 0]
Texts(kind, k) == { [kind |-> kind, iteration |-> k, text |-> t] : t \in 1..MaxText }

\* The keys of the session state each agent is wired to.
InitialWriterOutputKey == "story_draft"
CriticStoryKey         == "story_draft"
CriticOutputKey        == "critique"
RefinerStoryKey        == "story_draft"
RefinerCritiqueKey     == "critique"
RefinerOutputKey       == "current_story"

\* The composition.
SwappedRootSubAgents == <<"StoryRefinementLoop", "InitialWriter">>
RootSubAgents == <<"InitialWriter", "StoryRefinementLoop">>

SwappedLoopSubAgents == <<"RefinerAgent", "CriticAgent">>
LoopSubAgents == <<"CriticAgent", "RefinerAgent">>

\* LoopAgent starts another iteration while fewer than max_iterations are done.
LoopContinuesOffByOne(n) == n <= max_iterations
LoopContinues(n) == n < max_iterations

\* The refiner's test of the critique: EXACTLY "APPROVED".
IsApprovedIgnoringCase(critique) == Lower(critique) = Lower(APPROVED)
IsApproved(critique) == critique = APPROVED

\* The tool the refiner calls on approval.  The function takes no tool
\* context: all it does is return a dictionary, and the event that carries
\* its response has no escalate action set.
exit_loop ==
    [ response |-> [status |-> "approved", message |-> "Story approved, exiting loop."],
      escalate |-> FALSE ]

Finished == root_pos > Len(RootSubAgents)

CurrentRoot == IF Finished THEN "none" ELSE RootSubAgents[root_pos]

\* The agent whose turn it is.
CurrentAgent ==
    IF CurrentRoot = "StoryRefinementLoop" THEN LoopSubAgents[loop_pos] ELSE CurrentRoot

Iteration == IF CurrentRoot = "StoryRefinementLoop" THEN times_looped + 1 ELSE 0

\* The value the instruction template {key} injects.
Inject(key) == IF key \in DOMAIN state THEN state[key] ELSE NoStory

\* The value under the refiner's output key.
CurrentArtifact == Inject(RefinerOutputKey)

\* One entry of the invocation log.
Call(agent, read, critique, exit, wrote) ==
    [ agent |-> agent, iteration |-> Iteration, read |-> read, critique |-> critique,
      before |-> CurrentArtifact, exit |-> exit, wrote |-> wrote ]

\* The control flow after the current sub-agent has finished: SequentialAgent
\* goes on to its next sub-agent; LoopAgent returns if one of the sub-agent's
\* events escalated, else goes on to the next sub-agent and, after the last,
\* counts the iteration and tests the ceiling.
AfterSubAgent(escalate) ==
    IF CurrentRoot # "StoryRefinementLoop"
    THEN /\ root_pos' = root_pos + 1
         /\ UNCHANGED <<loop_pos, times_looped, terminal>>
    ELSE IF escalate
    THEN /\ terminal' = "approved"
         /\ root_pos' = root_pos + 1
         /\ UNCHANGED <<loop_pos, times_looped>>
    ELSE IF loop_pos < Len(LoopSubAgents)
    THEN /\ loop_pos' = loop_pos + 1
         /\ UNCHANGED <<root_pos, times_looped, terminal>>
    ELSE /\ loop_pos' = 1
         /\ times_looped' = times_looped + 1
         /\ IF LoopContinues(times_looped + 1)
            THEN UNCHANGED <<root_pos, terminal>>
            ELSE /\ terminal' = "exhausted"
                 /\ root_pos' = root_pos + 1

\* An instruction names a key the session state does not hold: the
\* invocation raises KeyError and the run ends.
RaiseKeyError(agent) ==
    /\ calls' = Append(calls, Call(agent, NoStory, <<>>, FALSE, NoStory))
    /\ terminal' = "failed"
    /\ root_pos' = Len(RootSubAgents) + 1
    /\ UNCHANGED <<state, loop_pos, times_looped>>

\* InitialWriter: writes the first draft under its output key.
RunInitialWriter ==
    /\ CurrentAgent = "InitialWriter"
    /\ \E draft \in Texts("draft", 0) :
          /\ state' = Put(state, InitialWriterOutputKey, draft)
          /\ calls' = Append(calls, Call("InitialWriter", NoStory, <<>>, FALSE, draft))
    /\ AfterSubAgent(FALSE)
    /\ UNCHANGED <<toolVars, retryVars, researchVars>>

\* CriticAgent: reads {story_draft}, writes its answer under "critique".
RunCritic ==
    /\ CurrentAgent = "CriticAgent"
    /\ IF CriticStoryKey \notin DOMAIN state
       THEN RaiseKeyError("CriticAgent")
       ELSE /\ \E critique \in Critiques :
                  /\ state' = Put(state, CriticOutputKey, critique)
                  /\ calls' = Append(calls,
                        Call("CriticAgent", Inject(CriticStoryKey), critique, FALSE, NoStory))
            /\ AfterSubAgent(FALSE)
    /\ UNCHANGED <<toolVars, retryVars, researchVars>>

\* RefinerAgent: reads {story_draft} and {critique}.  On the approval phrase it
\* calls exit_loop; the tool's response goes back to the model, whose closing
\* answer, if it has any text, is stored under the output key like any final
\* response.  Otherwise it writes a rewritten story under the output key.
RunRefiner ==
    /\ CurrentAgent = "RefinerAgent"
    /\ IF ~({RefinerStoryKey, RefinerCritiqueKey} \subseteq DOMAIN state)
       THEN RaiseKeyError("RefinerAgent")
       ELSE LET story    == Inject(RefinerStoryKey)
                critique == state[RefinerCritiqueKey]
            IN  IF IsApproved(critique)
                THEN /\ \E answer \in {NoStory} \cup Texts("tool_summary", Iteration) :
                           /\ state' = IF answer = NoStory THEN state
                                       ELSE Put(state, RefinerOutputKey, answer)
                           /\ calls' = Append(calls,
                                 Call("RefinerAgent", story, critique, TRUE, answer))
                     /\ AfterSubAgent(exit_loop.escalate)
                ELSE /\ \E revision \in Texts("revision", Iteration) :
                           /\ state' = Put(state, RefinerOutputKey, revision)
                           /\ calls' = Append(calls,
                                 Call("RefinerAgent", story, critique, FALSE, revision))
                     /\ AfterSubAgent(FALSE)
    /\ UNCHANGED <<toolVars, retryVars, researchVars>>

(***************************************************************************)
(* The mock lookup tools (Day-2/agent_tools.py).  Amounts are kept as the  *)
(* decimal literals of the source.                                         *)
(***************************************************************************)
PlatinumCreditCard ==
    <<"p","l","a","t","i","n","u","m"," ","c","r","e","d","i","t"," ","c","a","r","d">>
GoldCreditCard ==
    <<"g","o","l","d"," ","c","r","e","d","i","t"," ","c","a","r","d">>
BankTransfer ==
    <<"b","a","n","k"," ","t","r","a","n","s","f","e","r">>

fee_database ==
    (PlatinumCreditCard :> "0.02") @@ (GoldCreditCard :> "0.025") @@ (BankTransfer :> "0.01")

rate_database ==
    ( <<"u","s","d">> :>
        ( (<<"e","u","r">> :> "0.93") @@ (<<"j","p","y">> :> "157.50")
          @@ (<<"i","n","r">> :> "83.58") ) )

get_fee_for_payment_method(method) ==
    LET fee == DictGet(fee_database, Lower(method))
    IN  IF fee # None
        THEN [status |-> "success", fee_percentage |-> fee[1]]
        ELSE [status |-> "error", error_message |-> "payment method not found"]

\* The lookup without the lower-casing of its arguments.
RateLookupCaseSensitive(base_currency, target_currency) ==
    LET rate == DictGet(DictGetOr(rate_database, base_currency, EmptyDict), target_currency)
    IN  IF rate # None
        THEN [status |-> "success", rate |-> rate[1]]
        ELSE [status |-> "error",
              error_message |-> <<"Unsupported currency pair: ", base_currency, "/", target_currency>>]

get_exchange_rate(base_currency, target_currency) ==
    LET base   == Lower(base_currency)
        target == Lower(target_currency)
        rate   == DictGet(DictGetOr(rate_database, base, EmptyDict), target)
    IN  IF rate # None
        THEN [status |-> "success", rate |-> rate[1]]
        ELSE [status |-> "error",
              error_message |-> <<"Unsupported currency pair: ", base_currency, "/", target_currency>>]

\* The arguments tried: the table's keys and some strings that are not, each
\* in several spellings.
MethodInputs ==
    UNION { CaseVariants(s) :
              s \in { PlatinumCreditCard, GoldCreditCard, BankTransfer,
                      <<"p","a","y","p","a","l">>,
                      <<"b","a","n","k">>,
                      <<"b","a","n","k"," ","t","r","a","n","s","f","e","r"," ">>,
                      <<>> } }

CurrencyInputs ==
    UNION { CaseVariants(s) :
              s \in { <<"u","s","d">>, <<"e","u","r">>, <<"j","p","y">>,
                      <<"i","n","r">>, <<"g","b","p">>, <<>> } }

ToolRequests ==
    { [tool |-> "get_fee_for_payment_method", args |-> <<m>>] : m \in MethodInputs }
    \cup
    { [tool |-> "get_exchange_rate", args |-> <<b, t>>] :
        b \in CurrencyInputs, t \in CurrencyInputs }

NoResult == [status |-> "none"]

CallFeeTool ==
    /\ tool_request.tool = "get_fee_for_payment_method"
    /\ tool_result = NoResult
    /\ tool_result' = get_fee_for_payment_method(tool_request.args[1])
    /\ UNCHANGED <<tool_request, storyVars, retryVars, researchVars>>

CallRateTool ==
    /\ tool_request.tool = "get_exchange_rate"
    /\ tool_result = NoResult
    /\ tool_result' = get_exchange_rate(tool_request.args[1], tool_request.args[2])
    /\ UNCHANGED <<tool_request, storyVars, retryVars, researchVars>>

(***************************************************************************)
(* The retry options of the Gemini model.  A request is attempted again    *)
(* while its response's status is one of http_status_codes and fewer than  *)
(* `attempts` attempts (the first one included) have been made.            *)
(***************************************************************************)
RetryOptionsDay1Architectures ==
    [ script |-> "Day-1/agent_architectures.py", attempts |-> 5, exp_base |-> 2,
      initial_delay |-> 1, http_status_codes |-> {492, 500, 503, 504} ]

RetryOptionsDay1PromptToAction ==
    [ script |-> "Day-1/from_prompt_to_action.py", attempts |-> 5, exp_base |-> 2,
      initial_delay |-> 1, http_status_codes |-> {492, 500, 503, 504} ]

RetryOptionsDay2Tools ==
    [ script |-> "Day-2/agent_tools.py", attempts |-> 5, exp_base |-> 7,
      initial_delay |-> 1, http_status_codes |-> {429, 500, 503, 504} ]

ScriptRetryOptions ==
    { RetryOptionsDay1Architectures, RetryOptionsDay1PromptToAction, RetryOptionsDay2Tools }

\* The statuses a response may carry.
HttpStatuses == {200, 400, 429, 492, 500, 503, 504}

\* One attempt of the call and its response.
HttpAttempt ==
    /\ outcome = "pending"
    /\ \E status \in HttpStatuses :
          /\ responses' = Append(responses, status)
          /\ outcome' =
                IF status = 200 THEN "success"
                ELSE IF /\ status \in retry_options.http_status_codes
                        /\ Len(responses) + 1 < retry_options.attempts
                     THEN "pending"
                     ELSE "failed"
    /\ UNCHANGED <<retry_options, storyVars, toolVars, researchVars>>

(***************************************************************************)
(* The ResearchSystem workflow (Day-1/agent_architectures.py): a           *)
(* SequentialAgent of ParallelResearchTeam (a ParallelAgent of three       *)
(* researchers, which run as concurrent tasks) and AggregatorAgent.        *)
(***************************************************************************)
ParallelSubAgents == {"TechResearcher", "HealthResearcher", "FinanceResearcher"}

ResearchRootSubAgents == <<"ParallelResearchTeam", "AggregatorAgent">>

\* The output_key of each agent of the workflow.
ResearchOutputKey(agent) ==
    CASE agent = "TechResearcher"    -> "tech_summary"
      [] agent = "HealthResearcher"  -> "health_summary"
      [] agent = "FinanceResearcher" -> "finance_summary"
      [] agent = "AggregatorAgent"   -> "executive_summary"

\* The keys the aggregator's instruction names.
AggregatorInputKeys == {"tech_summary", "health_summary", "finance_summary"}

\* A text an agent of the workflow wrote.
NoReport == [author |-> "none", text |-> 0]
Reports(agent) == { [author |-> agent, text |-> t] : t \in 1..MaxText }

\* ParallelAgent is over once the first of its sub-agents is.
ParallelTeamDoneOnFirst(pc) == \E r \in ParallelSubAgents : pc[r] = "done"
\* ParallelAgent is over once every one of its sub-agents is.
ParallelTeamDone(pc) == \A r \in ParallelSubAgents : pc[r] = "done"

ResearchCurrent ==
    IF research_pos > Len(ResearchRootSubAgents) THEN "none"
    ELSE ResearchRootSubAgents[research_pos]

\* The value the aggregator's instruction template {key} injects.
ResearchInject(key) ==
    IF key \in DOMAIN research_state THEN research_state[key] ELSE NoReport

\* One entry of the event log.
ResearchEvent(agent, event, key, wrote, read) ==
    [agent |-> agent, event |-> event, key |-> key, wrote |-> wrote, read |-> read]

NothingRead == [k \in AggregatorInputKeys |-> NoReport]

\* ParallelAgent starts the task of one of its sub-agents.
StartResearcher ==
    /\ ResearchCurrent = "ParallelResearchTeam"
    /\ \E r \in ParallelSubAgents :
          /\ research_pc[r] = "idle"
          /\ research_pc' = [research_pc EXCEPT ![r] = "running"]
          /\ research_log' = Append(research_log,
                ResearchEvent(r, "start", "none", NoReport, NothingRead))
    /\ UNCHANGED <<research_state, research_pos, research_end>>
    /\ UNCHANGED <<storyVars, toolVars, retryVars>>

\* A researcher gives its final answer, which is stored under its
\* output_key; SequentialAgent goes on once ParallelAgent is over.
FinishResearcher ==
    /\ ResearchCurrent = "ParallelResearchTeam"
    /\ \E r \in ParallelSubAgents :
          /\ research_pc[r] = "running"
          /\ \E report \in Reports(r) :
                /\ research_state' = Put(research_state, ResearchOutputKey(r), report)
                /\ research_log' = Append(research_log,
                      ResearchEvent(r, "finish", ResearchOutputKey(r), report, NothingRead))
          /\ research_pc' = [research_pc EXCEPT ![r] = "done"]
    /\ research_pos' = IF ParallelTeamDone(research_pc') THEN research_pos + 1
                       ELSE research_pos
    /\ UNCHANGED research_end
    /\ UNCHANGED <<storyVars, toolVars, retryVars>>

\* AggregatorAgent: its instruction injects the three summaries (KeyError if
\* one is not in the session state); its answer is stored under
\* "executive_summary".
RunAggregator ==
    /\ ResearchCurrent = "AggregatorAgent"
    /\ LET read == [k \in AggregatorInputKeys |-> ResearchInject(k)]
       IN  IF ~(AggregatorInputKeys \subseteq DOMAIN research_state)
           THEN /\ research_end' = "failed"
                /\ research_log' = Append(research_log,
                      ResearchEvent("AggregatorAgent", "KeyError", "none", NoReport, read))
                /\ UNCHANGED research_state
           ELSE /\ research_end' = "done"
                /\ \E summary \in Reports("AggregatorAgent") :
                      /\ research_state' =
                            Put(research_state, ResearchOutputKey("AggregatorAgent"), summary)
                      /\ research_log' = Append(research_log,
                            ResearchEvent("AggregatorAgent", "finish",
                                          ResearchOutputKey("AggregatorAgent"), summary, read))
    /\ research_pos' = Len(ResearchRootSubAgents) + 1
    /\ UNCHANGED research_pc
    /\ UNCHANGED <<storyVars, toolVars, retryVars>>

(***************************************************************************)
(* Specifications.                                                         *)
(***************************************************************************)
ResearchInit ==
    /\ research_state = EmptyDict
    /\ research_pc = [r \in ParallelSubAgents |-> "idle"]
    /\ research_pos = 1
    /\ research_end = "running"
    /\ research_log = <<>>

StoryInit ==
    /\ state = EmptyDict
    /\ root_pos = 1
    /\ loop_pos = 1
    /\ times_looped = 0
    /\ terminal = "running"
    /\ calls = <<>>

ToolIdle ==
    /\ tool_request = [tool |-> "none", args |-> <<>>]
    /\ tool_result = NoResult

RetryIdle ==
    /\ retry_options = [script |-> "none"]
    /\ responses = <<>>
    /\ outcome = "pending"

Init == StoryInit /\ ToolIdle /\ RetryIdle /\ ResearchInit

Next == RunInitialWriter \/ RunCritic \/ RunRefiner

\* The StoryWritingSystem run.
Spec == Init /\ [][Next]_vars

\* One call of a lookup tool, on any of the arguments tried.
ToolInit ==
    /\ StoryInit
    /\ RetryIdle
    /\ ResearchInit
    /\ tool_request \in ToolRequests
    /\ tool_result = NoResult

ToolNext == CallFeeTool \/ CallRateTool

ToolSpec == ToolInit /\ [][ToolNext]_vars

\* One model call under the retry options of any of the three scripts.
RetryInit ==
    /\ StoryInit
    /\ ToolIdle
    /\ ResearchInit
    /\ retry_options \in ScriptRetryOptions
    /\ responses = <<>>
    /\ outcome = "pending"

RetryNext == HttpAttempt

RetrySpec == RetryInit /\ [][RetryNext]_vars

\* The ResearchSystem run, under every interleaving of the researchers.
ResearchNext == StartResearcher \/ FinishResearcher \/ RunAggregator

ResearchSpec == Init /\ [][ResearchNext]_vars

(***************************************************************************)
(* Properties of the story-refinement workflow.                            *)
(***************************************************************************)
CallsOf(agent) == SelectSeq(calls, LAMBDA c : c.agent = agent)
WriterCalls  == Len(CallsOf("InitialWriter"))
CriticCalls  == Len(CallsOf("CriticAgent"))
RefinerCalls == Len(CallsOf("RefinerAgent"))
\* The invocations made by the loop, in order.
LoopCalls == SelectSeq(calls, LAMBDA c : c.agent \in {"CriticAgent", "RefinerAgent"})
\* Some refiner invocation has called exit_loop.
ExitLoopCalled == \E i \in 1..Len(calls) : calls[i].exit
\* No critique so far was the approval phrase.
NeverApproved ==
    \A i \in 1..Len(calls) :
        calls[i].agent = "CriticAgent" => calls[i].critique # <<"A","P","P","R","O","V","E","D">>

\* C1: once the refiner has called exit_loop on the critique "APPROVED", the
\* loop is over with reason approved: that refiner invocation is the last
\* invocation of the run, whatever the iteration it happens in.
C1_ExitLoopEndsLoop ==
    \A i \in 1..Len(calls) :
        calls[i].exit => (i = Len(calls) /\ terminal = "approved")

\* C2: a critic invocation that follows a revision by the refiner reads that
\* revision (the latest artifact), never the drafter's original draft.
C2_CriticReadsLatestArtifact ==
    \A i \in 2..Len(calls) :
        ( /\ calls[i].agent = "CriticAgent"
          /\ calls[i-1].agent = "RefinerAgent"
          /\ calls[i-1].wrote.kind = "revision" )
        => (calls[i].read = calls[i-1].wrote /\ calls[i].read.kind # "draft")

\* C3: the refiner invocation that calls exit_loop writes no artifact, and the
\* artifact stays, from then on, the one that existed when that invocation
\* began (the final artifact is the artifact as of the approval check).
C3_ApprovalKeepsArtifact ==
    \A i \in 1..Len(calls) :
        calls[i].exit => (calls[i].wrote = NoStory /\ CurrentArtifact = calls[i].before)

\* C4: the critic is invoked at most max_iterations times, the loop's
\* invocations alternate critic, refiner, critic, refiner, ... starting with
\* the critic, and once the loop is over the refiner has been invoked exactly
\* as many times as the critic.
C4_BoundedAlternation ==
    /\ CriticCalls <= max_iterations
    /\ \A i \in 1..Len(LoopCalls) :
          LoopCalls[i].agent = IF i % 2 = 1 THEN "CriticAgent" ELSE "RefinerAgent"
    /\ RefinerCalls <= CriticCalls
    /\ CriticCalls <= RefinerCalls + 1
    /\ (terminal # "running" => RefinerCalls = CriticCalls)

\* C4's case: the loop is over after max_iterations full critic/refiner rounds.
C4_Witness ==
    /\ terminal = "exhausted"
    /\ CriticCalls = max_iterations
    /\ RefinerCalls = max_iterations

\* C5: when the loop is over and no critique was the approval phrase, the
\* reason is exhausted, critic and refiner were each invoked exactly
\* max_iterations times, and the artifact is what the refiner wrote in
\* iteration max_iterations.
C5_ExhaustedAfterCeiling ==
    (terminal # "running" /\ NeverApproved) =>
        /\ terminal = "exhausted"
        /\ CriticCalls = 2
        /\ RefinerCalls = 2
        /\ calls[Len(calls)].agent = "RefinerAgent"
        /\ calls[Len(calls)].iteration = 2
        /\ calls[Len(calls)].wrote.kind = "revision"
        /\ "current_story" \in DOMAIN state
        /\ state["current_story"] = calls[Len(calls)].wrote

\* C5's case: a finished run in which the critic never approved.
C5_Witness ==
    /\ terminal = "exhausted"
    /\ NeverApproved
    /\ CriticCalls = 2
    /\ CurrentArtifact.kind = "revision"
    /\ CurrentArtifact.iteration = 2

C7_LoopControlState ==
    [][ /\ times_looped' >= times_looped
        /\ times_looped' <= max_iterations
        /\ (terminal # "running" => terminal' = terminal)
        /\ (terminal = "running" /\ terminal' # "running") =>
              terminal' = IF ExitLoopCalled' THEN "approved" ELSE "exhausted"
      ]_vars

\* C8: the drafter is invoked exactly once, as the first invocation of the
\* run and never inside the loop; its draft is in the session state under
\* "story_draft" before the first critic invocation, which reads it.
C8_DrafterRunsOnceFirst ==
    /\ WriterCalls <= 1
    /\ \A i \in 1..Len(calls) : (calls[i].agent = "InitialWriter") <=> (i = 1)
    /\ Len(calls) > 0 =>
          /\ calls[1].wrote.kind = "draft"
          /\ "story_draft" \in DOMAIN state
          /\ state["story_draft"] = calls[1].wrote
    /\ Len(LoopCalls) > 0 => LoopCalls[1].read = calls[1].wrote
    /\ Finished => WriterCalls = 1

\* C8's case: the critic has been invoked, after the one drafter invocation.
C8_Witness ==
    /\ WriterCalls = 1
    /\ CriticCalls >= 1
    /\ calls[2].agent = "CriticAgent"
    /\ calls[2].read = calls[1].wrote
    /\ calls[2].read.kind = "draft"

(***************************************************************************)
(* Properties of the lookup tools and of the retry options.                *)
(***************************************************************************)
\* C9: each lookup tool returns a dictionary tagged success or error and
\* never raises.  get_fee_for_payment_method answers success, with the fee of
\* the key, exactly when the lower-cased method is a key of the fee table;
\* get_exchange_rate answers success, with the rate, exactly when the
\* lower-cased pair is in the rate table; any other argument gets an error
\* with its message.
C9_LookupToolsStatusTagged ==
    tool_result.status # "none" =>
        /\ tool_result.status \in {"success", "error"}
        /\ tool_request.tool = "get_fee_for_payment_method" =>
              LET key == Lower(tool_request.args[1])
              IN  IF key \in DOMAIN fee_database
                  THEN tool_result = [status |-> "success", fee_percentage |-> fee_database[key]]
                  ELSE /\ tool_result.status = "error"
                       /\ DOMAIN tool_result = {"status", "error_message"}
        /\ tool_request.tool = "get_exchange_rate" =>
              LET base   == Lower(tool_request.args[1])
                  target == Lower(tool_request.args[2])
              IN  IF base \in DOMAIN rate_database /\ target \in DOMAIN rate_database[base]
                  THEN tool_result = [status |-> "success", rate |-> rate_database[base][target]]
                  ELSE /\ tool_result.status = "error"
                       /\ DOMAIN tool_result = {"status", "error_message"}

\* C9's case: the lookup of the script's self-test, whose arguments are in
\* upper case, has succeeded with the rate of the lower-case keys.
C9_Witness ==
    /\ tool_request.tool = "get_exchange_rate"
    /\ tool_request.args = << <<"U","S","D">>, <<"E","U","R">> >>
    /\ tool_result.status = "success"
    /\ tool_result.rate = "0.93"

\* C10: under the retry options of each script a response with status 429,
\* 500, 503 or 504 that is not the fifth leaves the call pending (it is
\* attempted again), and no call makes more than 5 attempts.
C10_TransientFailuresRetried ==
    /\ Len(responses) <= 5
    /\ ( /\ Len(responses) \in 1..4
         /\ responses[Len(responses)] \in {429, 500, 503, 504} )
       => outcome = "pending"

(***************************************************************************)
(* Properties of the ResearchSystem workflow.                              *)
(***************************************************************************)
\* The positions of the log at which the aggregator appears.
AggregatorEvents ==
    { i \in 1..Len(research_log) : research_log[i].agent = "AggregatorAgent" }

\* C11: under every interleaving of the three researchers, the aggregator
\* starts only after all three have finished and their summaries are in the
\* session state; each researcher writes its own key and no other, so each
\* summary in the state is the one its researcher wrote; and the aggregator
\* reads the three summaries, never an unset key.
C11_AggregatorAfterAllResearchers ==
    /\ research_end # "failed"
    /\ \A i \in 1..Len(research_log) :
          LET e == research_log[i]
          IN  /\ (e.agent = "TechResearcher"    /\ e.event = "finish") => e.key = "tech_summary"
              /\ (e.agent = "HealthResearcher"  /\ e.event = "finish") => e.key = "health_summary"
              /\ (e.agent = "FinanceResearcher" /\ e.event = "finish") => e.key = "finance_summary"
    /\ ("tech_summary" \in DOMAIN research_state
          => research_state["tech_summary"].author = "TechResearcher")
    /\ ("health_summary" \in DOMAIN research_state
          => research_state["health_summary"].author = "HealthResearcher")
    /\ ("finance_summary" \in DOMAIN research_state
          => research_state["finance_summary"].author = "FinanceResearcher")
    /\ \A r \in {"TechResearcher", "HealthResearcher", "FinanceResearcher"} :
          research_pc[r] = "done" =>
             \E i \in 1..Len(research_log) :
                /\ research_log[i].agent = r
                /\ research_log[i].event = "finish"
                /\ research_state[research_log[i].key] = research_log[i].wrote
    /\ \A i \in AggregatorEvents :
          /\ \A r \in {"TechResearcher", "HealthResearcher", "FinanceResearcher"} :
                /\ research_pc[r] = "done"
                /\ \E j \in 1..(i - 1) :
                      research_log[j].agent = r /\ research_log[j].event = "finish"
          /\ research_log[i].event = "finish"
          /\ research_log[i].read["tech_summary"].author = "TechResearcher"
          /\ research_log[i].read["health_summary"].author = "HealthResearcher"
          /\ research_log[i].read["finance_summary"].author = "FinanceResearcher"
          /\ \A k \in {"tech_summary", "health_summary", "finance_summary"} :
                research_log[i].read[k] = research_state[k]

\* C11's case: the aggregator has run after an interleaving in which
\* FinanceResearcher finished before TechResearcher had even started and
\* HealthResearcher finished last.
C11_Witness ==
    /\ research_end = "done"
    /\ "executive_summary" \in DOMAIN research_state
    /\ Len(research_log) = 7
    /\ research_log[2].agent = "FinanceResearcher" /\ research_log[2].event = "finish"
    /\ research_log[3].agent = "HealthResearcher"  /\ research_log[3].event = "start"
    /\ research_log[4].agent = "TechResearcher"    /\ research_log[4].event = "start"
    /\ research_log[6].agent = "HealthResearcher"  /\ research_log[6].event = "finish"
    /\ research_log[7].agent = "AggregatorAgent"

=============================================================================
